---------------------------- MODULE Spec2Model ----------------------------
(***************************************************************************)
(* The contact and newsletter API endpoints of johnciresi:                 *)
(*   src/unnamed/part_000            (the contact endpoint, /api/contact)  *)
(*   src/src/pages/api/newsletter.ts (the newsletter endpoint)             *)
(*                                                                         *)
(* Each endpoint exports an async POST handler and an async OPTIONS        *)
(* handler.  A POST handler runs synchronously up to `await                *)
(* request.json()`, then up to `await send...Email(...)`, then to its      *)
(* return; other requests interleave only at those two awaits.  The        *)
(* collaborators the handlers import (validateOrigin, getClientIP,         *)
(* checkRateLimit, the form validators, the email senders, logError,       *)
(* applySecurityHeaders) live in utils/ modules that are not part of the   *)
(* sources at hand: what they return is modelled from the specification,   *)
(* and every call of one may also throw.                                   *)
(***************************************************************************)
EXTENDS Integers, Sequences, FiniteSets, TLC

VARIABLES
    handler,    \* handler[r]: the invocation in slot r (its locals, its position)
    store,      \* the rate limiter's per-key record store (shared)
    now,        \* the clock, in milliseconds (Date.now())
    tally       \* per key, the checks the rate limiter answered in the
                \* latest window (kept for the record; no code reads it)

vars == <<handler, store, now, tally>>

-----------------------------------------------------------------------------
(* Bounds of the model *)

\* concurrent handler invocations
NReq == 2
\* the clock runs from 0 to MaxTicks * TickMs
MaxTicks == 3
\* rate-limit checks counted in one window of one key
MaxCount == 3

Slots == 1 .. NReq

-----------------------------------------------------------------------------
(* Inputs *)

Endpoints == {"contact", "newsletter"}
Methods == {"POST", "GET"}
AllowedOrigin == "https://johnciresi.com"
Origins == {AllowedOrigin, "https://evil.example"}
\* client keys: every request comes from the one client, the case in which
\* the requests share a rate-limit record
IPs == {"203.0.113.7"}
\* what request.json() finds when the body is read: no JSON at all, or JSON
\* the validator accepts or rejects
Bodies == {"malformed", "valid", "bad-email", "empty"}

\* a request as the handler is given it (its body is a stream, not read yet)
Requests ==
    [endpoint : Endpoints, method : Methods, origin : Origins, ip : IPs]

\* preflight requests, which the runtime hands to the OPTIONS handlers
OptionsRequests ==
    [endpoint : Endpoints, method : {"OPTIONS"}, origin : Origins, ip : IPs]

\* what a collaborator may throw: an Error, or a value that is no Error
Throwables == {[kind |-> "Error", msg |-> "boom"],
               [kind |-> "string", msg |-> "oops"]}

Collaborators ==
    {"validateOrigin", "getClientIP", "checkRateLimit", "json", "validate",
     "sendEmail", "logError", "applySecurityHeaders"}

-----------------------------------------------------------------------------
(* Values *)

NoRequest ==
    [endpoint |-> "none", method |-> "none", origin |-> "none", ip |-> "none"]
NoResponse == [status |-> 0]
NoRateLimit == [allowed |-> FALSE, remaining |-> -1, resetTime |-> -1]
NoValidation == [valid |-> FALSE, errors |-> <<>>, sanitized |-> "none"]
NoError == [step |-> "none", kind |-> "none", msg |-> "none"]
NoRecord == [count |-> 0, resetTime |-> -1]
NoTally == [window |-> -1, checks |-> 0, passed |-> 0, remaining |-> -1]

Idle ==
    [pc |-> "idle", export |-> "none", request |-> NoRequest,
     body |-> "unread",
     calls |-> [c \in Collaborators |-> 0], order |-> <<>>,
     quotaLeft |-> -1,
     rateLimit |-> NoRateLimit, validation |-> NoValidation,
     response |-> NoResponse, caught |-> NoError, errorLog |-> <<>>,
     dateNow |-> <<>>]

\* the value a collaborator call at `step` throws
Thrown(step, t) == [step |-> step, kind |-> t.kind, msg |-> t.msg]

\* one more invocation of collaborator c by this handler invocation
Called(h, c) == [h EXCEPT !.calls[c] = @ + 1, !.order = Append(@, c)]

\* the handler returns `response`
Return(h, response) == [h EXCEPT !.pc = "responded", !.response = response]

\* an exception leaves the handler: its promise rejects, no response is built
Reject(h) == [h EXCEPT !.pc = "rejected"]

-----------------------------------------------------------------------------
(* The collaborators, from the specification (their code is in utils/) *)

\* quota Q and window W of the rate limiter (specification 4.1)
MaxRequests == 2
WindowMs == 1000

\* validateOrigin(request): the origin header names the site itself
validateOrigin(request) == request.origin = AllowedOrigin

\* getClientIP(request): the client key, from network-layer metadata
getClientIP(request) == request.ip

\* checkRateLimit with `remaining` taken before the count goes up
checkRateLimit_StaleRemaining(st, key, t) ==
    LET rec == st[key]
        fresh == rec = NoRecord \/ t > rec.resetTime
        new == IF fresh
                 THEN [count |-> 1, resetTime |-> t + WindowMs]
                 ELSE [rec EXCEPT !.count = @ + 1]
        left == MaxRequests - new.count + 1
    IN [result |-> [allowed |-> new.count <= MaxRequests,
                    remaining |-> IF left > 0 THEN left ELSE 0,
                    resetTime |-> new.resetTime],
        store |-> [st EXCEPT ![key] = new]]

\* checkRateLimit admitting one request too many
checkRateLimit_OneTooMany(st, key, t) ==
    LET rec == st[key]
        fresh == rec = NoRecord \/ t > rec.resetTime
        new == IF fresh
                 THEN [count |-> 1, resetTime |-> t + WindowMs]
                 ELSE [rec EXCEPT !.count = @ + 1]
        left == MaxRequests - new.count
    IN [result |-> [allowed |-> new.count <= MaxRequests + 1,
                    remaining |-> IF left > 0 THEN left ELSE 0,
                    resetTime |-> new.resetTime],
        store |-> [st EXCEPT ![key] = new]]

\* checkRateLimit whose windows never expire
checkRateLimit_NeverExpires(st, key, t) ==
    LET rec == st[key]
        fresh == rec = NoRecord
        new == IF fresh
                 THEN [count |-> 1, resetTime |-> t + WindowMs]
                 ELSE [rec EXCEPT !.count = @ + 1]
        left == MaxRequests - new.count
    IN [result |-> [allowed |-> new.count <= MaxRequests,
                    remaining |-> IF left > 0 THEN left ELSE 0,
                    resetTime |-> new.resetTime],
        store |-> [st EXCEPT ![key] = new]]

\* checkRateLimit that writes back the count only while it is under the quota
checkRateLimit_LostUpdate(st, key, t) ==
    LET rec == st[key]
        fresh == rec = NoRecord \/ t > rec.resetTime
        new == IF fresh
                 THEN [count |-> 1, resetTime |-> t + WindowMs]
                 ELSE [rec EXCEPT !.count = @ + 1]
        left == MaxRequests - new.count
    IN [result |-> [allowed |-> new.count <= MaxRequests,
                    remaining |-> IF left > 0 THEN left ELSE 0,
                    resetTime |-> new.resetTime],
        store |-> IF fresh THEN [st EXCEPT ![key] = new] ELSE st]

\* checkRateLimit(key) at time t on store st: the result and the store after it.
\* No record or an expired window: a new window with count 1; otherwise the
\* count goes up by one, allowed = (count <= Q), remaining = max(0, Q - count).
checkRateLimit(st, key, t) ==
    LET rec == st[key]
        fresh == rec = NoRecord \/ t > rec.resetTime
        new == IF fresh
                 THEN [count |-> 1, resetTime |-> t + WindowMs]
                 ELSE [rec EXCEPT !.count = @ + 1]
        left == MaxRequests - new.count
    IN [result |-> [allowed |-> new.count <= MaxRequests,
                    remaining |-> IF left > 0 THEN left ELSE 0,
                    resetTime |-> new.resetTime],
        store |-> [st EXCEPT ![key] = new]]

\* the quota left to `key` at time t, before a check (for the record only)
QuotaLeft(st, key, t) ==
    LET rec == st[key]
    IN IF rec = NoRecord \/ t > rec.resetTime THEN MaxRequests
       ELSE IF rec.count < MaxRequests THEN MaxRequests - rec.count
       ELSE 0

\* validateContactForm(data): name, email and message are required
validateContactForm(data) ==
    CASE data = "valid" ->
           [valid |-> TRUE, errors |-> <<>>, sanitized |-> "sanitized"]
      [] data = "bad-email" ->
           [valid |-> FALSE, errors |-> <<"email">>, sanitized |-> "none"]
      [] OTHER ->
           [valid |-> FALSE, errors |-> <<"name", "email", "message">>,
            sanitized |-> "none"]

\* validateNewsletterForm(data): email is required
validateNewsletterForm(data) ==
    IF data = "valid"
      THEN [valid |-> TRUE, errors |-> <<>>, sanitized |-> "sanitized"]
      ELSE [valid |-> FALSE, errors |-> <<"email">>, sanitized |-> "none"]

\* applySecurityHeaders(response, 'api'): the response with the security
\* headers added; status and body are those of its argument
applySecurityHeaders(response) ==
    [response EXCEPT
       !.headers = @ @@ ("X-Content-Type-Options" :> "nosniff")]

\* whether a response went through applySecurityHeaders
Secured(response) ==
    /\ response # NoResponse
    /\ "X-Content-Type-Options" \in DOMAIN response.headers

-----------------------------------------------------------------------------
(* The responses the handlers build *)

MsPerSecond == 1000

\* Math.ceil(a / b) for b > 0
Ceil(a, b) == -((-a) \div b)

\* Number.prototype.toString(): the decimal numeral of n
toString(n) == <<"numeral", n>>

JsonHeaders == "Content-Type" :> "application/json"

Response405 ==
    [status |-> 405,
     body |-> [success |-> FALSE, error |-> "Method not allowed"],
     headers |-> JsonHeaders]

Response403 ==
    [status |-> 403,
     body |-> [success |-> FALSE, error |-> "Invalid origin"],
     headers |-> JsonHeaders]

\* t1 and t2 are the two readings of Date.now(), body first, header second
Response429(rateLimit, t1, t2) ==
    [status |-> 429,
     body |-> [success |-> FALSE,
               error |-> "Too many requests. Please try again later.",
               retryAfter |-> Ceil(rateLimit.resetTime - t1, MsPerSecond)],
     headers |-> JsonHeaders @@
                 ("Retry-After" :>
                    toString(Ceil(rateLimit.resetTime - t2, MsPerSecond)))]

\* Response400 without the error string
Response400_NoError(validation) ==
    [status |-> 400,
     body |-> [success |-> FALSE, details |-> validation.errors],
     headers |-> JsonHeaders]

Response400(validation) ==
    [status |-> 400,
     body |-> [success |-> FALSE, error |-> "Validation failed",
               details |-> validation.errors],
     headers |-> JsonHeaders]

SuccessMessage(endpoint) ==
    IF endpoint = "contact"
      THEN "Message sent successfully! We'll get back to you soon."
      ELSE "Successfully subscribed! Check your email for a welcome message."

\* Response200 with `remaining` read from the store when the response is built
Response200_FromStore(endpoint, rateLimit) ==
    LET left == MaxRequests - store[CHOOSE k \in IPs : TRUE].count
    IN [status |-> 200,
        body |-> [success |-> TRUE, message |-> SuccessMessage(endpoint),
                  remaining |-> IF left > 0 THEN left ELSE 0],
        headers |-> JsonHeaders]

Response200(endpoint, rateLimit) ==
    [status |-> 200,
     body |-> [success |-> TRUE, message |-> SuccessMessage(endpoint),
               remaining |-> rateLimit.remaining],
     headers |-> JsonHeaders]

\* Response500 with the caught error's message as its error string
Response500_Leaks(error) ==
    [status |-> 500,
     body |-> [success |-> FALSE, error |-> error.msg],
     headers |-> JsonHeaders]

\* the catch block's response; `error` is the caught value, in scope there
Response500(error) ==
    [status |-> 500,
     body |-> [success |-> FALSE,
               error |-> "Internal server error. Please try again later."],
     headers |-> JsonHeaders]

\* error instanceof Error ? error : new Error(String(error))
AsError(error) == [kind |-> "Error", msg |-> error.msg]

\* the logError call of the catch block: error, context, severity
LogEntry(endpoint, error) ==
    [error |-> AsError(error),
     component |-> IF endpoint = "contact" THEN "contact-api"
                                           ELSE "newsletter-api",
     action |-> IF endpoint = "contact" THEN "form-submission"
                                        ELSE "subscription",
     endpoint |-> IF endpoint = "contact" THEN "/api/contact"
                                          ELSE "/api/newsletter",
     severity |-> "high"]

CorsOrigin(endpoint) == IF endpoint = "contact" THEN AllowedOrigin ELSE "*"

ResponseOptions(endpoint) ==
    [status |-> 200,
     body |-> [null |-> TRUE],
     headers |-> ("Access-Control-Allow-Origin" :> CorsOrigin(endpoint)) @@
                 ("Access-Control-Allow-Methods" :> "POST, OPTIONS") @@
                 ("Access-Control-Allow-Headers" :> "Content-Type")]

-----------------------------------------------------------------------------
(* The catch blocks.  Each yields the set of ways the handler can go on:     *)
(* every collaborator call either returns or throws.                        *)

\* contact: logError(...), then return applySecurityHeaders(<500>, 'api').
\* Nothing encloses the catch block: what logError or applySecurityHeaders
\* throws here leaves the handler.
ContactCatch(h, error) ==
    LET c == Called([h EXCEPT !.caught = error], "logError")
        logged == [c EXCEPT !.errorLog =
                                Append(@, LogEntry("contact", error))]
        s == Called(logged, "applySecurityHeaders")
    IN {Reject(c), Reject(s),
        Return(s, applySecurityHeaders(Response500(error)))}

\* NewsletterCatch with the 500 response put through applySecurityHeaders
NewsletterCatch_Secured(h, error) ==
    LET c == Called([h EXCEPT !.caught = error], "logError")
        logged == [c EXCEPT !.errorLog =
                                Append(@, LogEntry("newsletter", error))]
        s == Called(logged, "applySecurityHeaders")
    IN {Reject(c), Reject(s),
        Return(s, applySecurityHeaders(Response500(error)))}

\* newsletter: logError(...), then return <500> as built
NewsletterCatch(h, error) ==
    LET c == Called([h EXCEPT !.caught = error], "logError")
        logged == [c EXCEPT !.errorLog =
                                Append(@, LogEntry("newsletter", error))]
    IN {Reject(c), Return(logged, Response500(error))}

\* `error` is thrown inside the try block of h's handler
Throw(h, error) ==
    IF h.request.endpoint = "contact"
      THEN ContactCatch(h, error)
      ELSE NewsletterCatch(h, error)

\* the collaborator call at `step`, inside the try block, throws
Throws(h, step) == UNION {Throw(h, Thrown(step, t)) : t \in Throwables}

\* `return applySecurityHeaders(response, 'api')` inside the try block
ReturnSecured(h, response) ==
    LET s == Called(h, "applySecurityHeaders")
    IN {Return(s, applySecurityHeaders(response))}
         \cup Throws(s, "applySecurityHeaders")

-----------------------------------------------------------------------------
(* The POST handlers, cut at their two awaits *)

TickMs == 500
MaxNow == MaxTicks * TickMs

\* the clock may advance between two statements
Later(t) == {t2 \in {t, t + TickMs} : t2 <= MaxNow}

\* a handler state h with the store and the clock it leaves
With(hs, st, t) == {[h |-> h, store |-> st, now |-> t] : h \in hs}

\* two successive readings of Date.now() starting at t
Readings(t) == UNION {{<<t1, t2>> : t2 \in Later(t1)} : t1 \in Later(t)}

\* the 429 response, with its two readings of Date.now()
RateLimited(h, rateLimit, st, t) ==
    {[h |-> Return([h EXCEPT !.dateNow = rd],
                   Response429(rateLimit, rd[1], rd[2])),
      store |-> st, now |-> rd[2]] : rd \in Readings(t)}

\* CheckRateLimit without the test of rateLimit.allowed
CheckRateLimit_NoReject(h, clientIP, st, t) ==
    LET c == Called(h, "checkRateLimit")
        rl == checkRateLimit(st, clientIP, t)
        got == [c EXCEPT !.rateLimit = rl.result,
                         !.quotaLeft = QuotaLeft(st, clientIP, t)]
    IN With(Throws(c, "checkRateLimit"), st, t)
         \cup With({[Called(got, "json") EXCEPT !.pc = "awaitJson"]},
                   rl.store, t)

\* from checkRateLimit(clientIP) to `await request.json()`
CheckRateLimit(h, clientIP, st, t) ==
    LET c == Called(h, "checkRateLimit")
        rl == checkRateLimit(st, clientIP, t)
        got == [c EXCEPT !.rateLimit = rl.result,
                         !.quotaLeft = QuotaLeft(st, clientIP, t)]
    IN With(Throws(c, "checkRateLimit"), st, t)
         \cup IF ~rl.result.allowed
                THEN RateLimited(got, rl.result, rl.store, t)
                ELSE With({[Called(got, "json") EXCEPT !.pc = "awaitJson"]},
                          rl.store, t)

\* CheckOrigin with the result of validateOrigin ignored
CheckOrigin_NoReject(h, st, t) ==
    LET c == Called(h, "validateOrigin")
        ip == Called(c, "getClientIP")
    IN With(Throws(c, "validateOrigin"), st, t)
         \cup With(Throws(ip, "getClientIP"), st, t)
         \cup CheckRateLimit(ip, getClientIP(h.request), st, t)

\* CheckOrigin with the rate-limit check made before the origin check
CheckOrigin_RateLimitFirst(h, st, t) ==
    LET c == Called(Called(h, "checkRateLimit"), "validateOrigin")
        ip == Called(Called(h, "validateOrigin"), "getClientIP")
        rl == checkRateLimit(st, getClientIP(h.request), t)
    IN IF ~validateOrigin(h.request)
         THEN With(ReturnSecured(c, Response403), rl.store, t)
         ELSE With(Throws(ip, "getClientIP"), st, t)
                \cup CheckRateLimit(ip, getClientIP(h.request), st, t)

\* from validateOrigin(request) on
CheckOrigin(h, st, t) ==
    LET c == Called(h, "validateOrigin")
        ip == Called(c, "getClientIP")
    IN With(Throws(c, "validateOrigin"), st, t)
         \cup IF ~validateOrigin(h.request)
                THEN With(ReturnSecured(c, Response403), st, t)
                ELSE With(Throws(ip, "getClientIP"), st, t)
                       \cup CheckRateLimit(ip, getClientIP(h.request), st, t)

\* POSTStart without the method check
POSTStart_AnyMethod(request, st, t) ==
    CheckOrigin([Idle EXCEPT !.export = "POST", !.request = request], st, t)

\* the handler from its invocation to its first await or its return
POSTStart(request, st, t) ==
    LET h == [Idle EXCEPT !.export = "POST", !.request = request]
    IN IF request.method # "POST"
         THEN With(ReturnSecured(h, Response405), st, t)
         ELSE CheckOrigin(h, st, t)

\* the endpoint's validator
validateForm(endpoint, data) ==
    IF endpoint = "contact" THEN validateContactForm(data)
                            ELSE validateNewsletterForm(data)

\* POSTAfterJson with the email sent whatever the validator says
POSTAfterJson_SendAnyway(h0, body) ==
    LET h == [h0 EXCEPT !.body = body]
    IN
    IF body = "malformed"
      THEN Throws(h, "json")
      ELSE LET c == Called(h, "validate")
               v == validateForm(h.request.endpoint, body)
               got == [c EXCEPT !.validation = v]
           IN Throws(c, "validate")
                \cup {[Called(got, "sendEmail") EXCEPT !.pc = "awaitSend"]}

\* request.json() settled: a malformed body rejects; otherwise validation,
\* then the 400 response or the call of the email sender
POSTAfterJson(h0, body) ==
    LET h == [h0 EXCEPT !.body = body]
    IN
    IF body = "malformed"
      THEN Throws(h, "json")
      ELSE LET c == Called(h, "validate")
               v == validateForm(h.request.endpoint, body)
               got == [c EXCEPT !.validation = v]
           IN Throws(c, "validate")
                \cup IF ~v.valid
                       THEN {Return(got, Response400(v))}
                       ELSE {[Called(got, "sendEmail") EXCEPT
                                !.pc = "awaitSend"]}

\* ContactSuccess with the response returned as built
ContactSuccess_Unsecured(h) ==
    {Return(h, Response200("contact", h.rateLimit))}

\* contact: the success response goes through applySecurityHeaders
ContactSuccess(h) ==
    ReturnSecured(h, Response200("contact", h.rateLimit))

\* newsletter: the success response is returned as built
NewsletterSuccess(h) ==
    {Return(h, Response200("newsletter", h.rateLimit))}

\* the email send settled: it failed (the await throws) or it succeeded
POSTAfterSend(h, sent) ==
    IF ~sent
      THEN Throws(h, "sendEmail")
      ELSE IF h.request.endpoint = "contact" THEN ContactSuccess(h)
                                             ELSE NewsletterSuccess(h)

-----------------------------------------------------------------------------
(* The OPTIONS handlers: no try block, no use of the request *)

ContactOPTIONS(h) ==
    LET s == Called(h, "applySecurityHeaders")
    IN {Return(s, applySecurityHeaders(ResponseOptions("contact")))}
         \cup {Reject([s EXCEPT !.caught =
                         Thrown("applySecurityHeaders", t)]) :
                 t \in Throwables}

NewsletterOPTIONS(h) == {Return(h, ResponseOptions("newsletter"))}

\* OPTIONS with a rate-limit check on the way
OPTIONS_RateLimited(request, st, t) ==
    LET h == Called([Idle EXCEPT !.export = "OPTIONS", !.request = request],
                    "checkRateLimit")
        rl == checkRateLimit(st, getClientIP(request), t)
    IN With(IF request.endpoint = "contact" THEN ContactOPTIONS(h)
                                            ELSE NewsletterOPTIONS(h),
            rl.store, t)

OPTIONS(request, st, t) ==
    LET h == [Idle EXCEPT !.export = "OPTIONS", !.request = request]
    IN With(IF request.endpoint = "contact" THEN ContactOPTIONS(h)
                                            ELSE NewsletterOPTIONS(h),
            st, t)

-----------------------------------------------------------------------------
(* The system *)

\* the tally after a check answered `result`: a result with another
\* resetTime opens a window
Tallied(tl, result) ==
    LET same == tl.window = result.resetTime
    IN [window |-> result.resetTime,
        checks |-> IF same THEN tl.checks + 1 ELSE 1,
        passed |-> (IF same THEN tl.passed ELSE 0)
                     + (IF result.allowed THEN 1 ELSE 0),
        remaining |-> result.remaining]

\* checkRateLimit returned to h's handler
Checked(h) == h.rateLimit # NoRateLimit

Init ==
    /\ handler = [r \in Slots |-> Idle]
    /\ store = [k \in IPs |-> NoRecord]
    /\ now = 0
    /\ tally = [k \in IPs |-> NoTally]

\* a POST handler is invoked and runs to its first await or to its return
Post(r) ==
    /\ handler[r].pc = "idle"
    /\ \E request \in Requests :
         \E out \in POSTStart(request, store, now) :
            /\ \A k \in IPs : out.store[k].count <= MaxCount
            /\ handler' = [handler EXCEPT ![r] = out.h]
            /\ store' = out.store
            /\ now' = out.now
            /\ tally' = IF Checked(out.h)
                          THEN [tally EXCEPT ![getClientIP(request)] =
                                  Tallied(@, out.h.rateLimit)]
                          ELSE tally

\* request.json() settles (the body is read) and the handler runs on
JsonSettles(r) ==
    /\ handler[r].pc = "awaitJson"
    /\ \E body \in Bodies :
         \E h \in POSTAfterJson(handler[r], body) :
            handler' = [handler EXCEPT ![r] = h]
    /\ UNCHANGED <<store, now, tally>>

\* the email send settles and the handler runs on
SendSettles(r) ==
    /\ handler[r].pc = "awaitSend"
    /\ \E sent \in BOOLEAN :
         \E h \in POSTAfterSend(handler[r], sent) :
            handler' = [handler EXCEPT ![r] = h]
    /\ UNCHANGED <<store, now, tally>>

\* an OPTIONS handler is invoked and runs to its end
Options(r) ==
    /\ handler[r].pc = "idle"
    /\ \E request \in OptionsRequests :
         \E out \in OPTIONS(request, store, now) :
            /\ handler' = [handler EXCEPT ![r] = out.h]
            /\ store' = out.store
            /\ now' = out.now
    /\ UNCHANGED tally

\* the runtime is done with a finished invocation
Forget(r) ==
    /\ handler[r].pc \in {"responded", "rejected"}
    /\ handler' = [handler EXCEPT ![r] = Idle]
    /\ UNCHANGED <<store, now, tally>>

\* time passes
Tick ==
    /\ now + TickMs <= MaxNow
    /\ now' = now + TickMs
    /\ UNCHANGED <<handler, store, tally>>

Next ==
    \/ \E r \in Slots : Post(r)
    \/ \E r \in Slots : JsonSettles(r)
    \/ \E r \in Slots : SendSettles(r)
    \/ \E r \in Slots : Options(r)
    \/ \E r \in Slots : Forget(r)
    \/ Tick

Spec == Init /\ [][Next]_vars

-----------------------------------------------------------------------------
(* Properties *)

Finished(r) == handler[r].pc \in {"responded", "rejected"}

\* validateOrigin(request) returned false for slot r's request
OriginRejected(r) ==
    /\ handler[r].export = "POST"
    /\ handler[r].calls["validateOrigin"] = 1
    /\ handler[r].caught.step # "validateOrigin"
    /\ ~validateOrigin(handler[r].request)

\* nothing after the origin check was invoked for slot r's request
NothingPastOrigin(r) ==
    /\ \A c \in {"getClientIP", "checkRateLimit", "json", "validate",
                 "sendEmail"} : handler[r].calls[c] = 0
    /\ handler[r].rateLimit = NoRateLimit
    /\ handler[r].body = "unread"
    /\ handler[r].validation = NoValidation

\* C1 as stated: a request whose origin check fails is answered 403, and the
\* rate limiter, the body parse, the validator and the email sender are never
\* invoked for it.
C1_AsStated ==
    \A r \in Slots :
        OriginRejected(r) =>
            /\ handler[r].pc = "responded"
            /\ handler[r].response.status = 403
            /\ NothingPastOrigin(r)

\* C1, amended: a request whose origin check fails is answered 403 unless
\* applySecurityHeaders throws on that 403 response; then the catch block
\* takes over and the request ends in 500 or in no response at all.  In
\* every case the rate limiter, the body parse, the validator and the email
\* sender are never invoked for it.
C1_OriginRejected ==
    \A r \in Slots :
        OriginRejected(r) =>
            /\ Finished(r)
            /\ NothingPastOrigin(r)
            /\ handler[r].caught = NoError =>
                   /\ handler[r].pc = "responded"
                   /\ handler[r].response.status = 403
            /\ handler[r].caught # NoError =>
                   /\ handler[r].caught.step = "applySecurityHeaders"
                   /\ handler[r].pc = "responded" =>
                          handler[r].response.status = 500

C1_Witness ==
    \E r \in Slots :
        /\ OriginRejected(r)
        /\ handler[r].pc = "responded"
        /\ handler[r].response.status = 403
        /\ \E q \in Slots : handler[q].rateLimit # NoRateLimit

\* the validator ran for slot r's request and found it invalid
ValidationFailed(r) ==
    /\ handler[r].export = "POST"
    /\ handler[r].validation # NoValidation
    /\ ~handler[r].validation.valid

\* C2: a request whose validator result is invalid is answered 400 with the
\* validator's error list as `details`, and the email sender is never
\* invoked for it.
C2_InvalidNeverSends ==
    \A r \in Slots :
        ValidationFailed(r) =>
            /\ handler[r].pc = "responded"
            /\ handler[r].response.status = 400
            /\ handler[r].response.body.details = handler[r].validation.errors
            /\ handler[r].validation.errors # <<>>
            /\ handler[r].calls["sendEmail"] = 0

C2_Witness ==
    \E r \in Slots :
        /\ ValidationFailed(r)
        /\ handler[r].request.endpoint = "contact"
        /\ handler[r].response.status = 400
        /\ handler[r].response.body.details = <<"email">>

\* the rate-limit check of slot r's request returned allowed = false
RateLimitRejected(r) ==
    /\ handler[r].export = "POST"
    /\ handler[r].rateLimit # NoRateLimit
    /\ ~handler[r].rateLimit.allowed

\* C3: when the rate-limit check returns allowed = false the response is 429
\* with a Retry-After header and a retryAfter body field, each computed from
\* the returned resetTime and a reading of the clock; the body is never
\* parsed, the validator never runs and no email is sent.
C3_RateLimited ==
    \A r \in Slots :
        RateLimitRejected(r) =>
            LET h == handler[r]
            IN /\ h.pc = "responded"
               /\ h.response.status = 429
               /\ Len(h.dateNow) = 2
               /\ h.response.body.retryAfter =
                      Ceil(h.rateLimit.resetTime - h.dateNow[1], MsPerSecond)
               /\ h.response.headers["Retry-After"] =
                      toString(Ceil(h.rateLimit.resetTime - h.dateNow[2],
                                    MsPerSecond))
               /\ h.body = "unread"
               /\ \A c \in {"json", "validate", "sendEmail"} : h.calls[c] = 0

C3_Witness ==
    \E r \in Slots :
        /\ RateLimitRejected(r)
        /\ handler[r].response.status = 429
        /\ handler[r].dateNow[1] > 0
        /\ handler[r].response.body.retryAfter = 1

\* a step inside the try block of slot r's POST handler threw
Caught(r) ==
    /\ handler[r].export = "POST"
    /\ handler[r].caught # NoError

\* C4 as stated: whenever a step inside the handler throws, the error is
\* logged exactly once via logError with severity 'high' and the handler's
\* component, action and endpoint, and the request is answered 500.
C4_AsStated ==
    \A r \in Slots :
        Caught(r) =>
            LET h == handler[r]
            IN /\ h.calls["logError"] = 1
               /\ h.errorLog = <<LogEntry(h.request.endpoint, h.caught)>>
               /\ h.errorLog[1].severity = "high"
               /\ h.pc = "responded"
               /\ h.response.status = 500

\* slot r's request went all the way: the origin check and the rate-limit
\* check passed, the body parsed, the validator accepted it, the send succeeded
Delivered(r) ==
    LET h == handler[r]
    IN /\ h.export = "POST"
       /\ h.request.method = "POST"
       /\ validateOrigin(h.request)
       /\ h.rateLimit # NoRateLimit
       /\ h.rateLimit.allowed
       /\ h.body \notin {"unread", "malformed"}
       /\ h.validation.valid
       /\ h.calls["sendEmail"] = 1
       /\ h.pc # "awaitSend"
       /\ h.caught.step # "sendEmail"

\* the 200 response carries the `remaining` of the request's own check
SuccessResponse(h) ==
    /\ h.pc = "responded"
    /\ h.response.status = 200
    /\ h.response.body.success = TRUE
    /\ h.response.body.remaining = h.rateLimit.remaining
    /\ h.response.body.remaining = h.quotaLeft - 1

\* C5 as stated: a request with a valid origin, an allowed rate-limit check,
\* a parseable body, a valid validation result and a successful email send
\* is answered 200 with success = true and the `remaining` of its own check.
C5_AsStated == \A r \in Slots : Delivered(r) => SuccessResponse(handler[r])

\* C5, amended: such a request is answered 200 with success = true and the
\* `remaining` of its own rate-limit check (one less than the quota left
\* before it), whatever interleaves during its awaits, unless, in the contact
\* handler, applySecurityHeaders throws on the success response; then the
\* catch block takes over (500 or no response).  The newsletter handler
\* always answers 200.
C5_Delivered ==
    \A r \in Slots :
        Delivered(r) =>
            LET h == handler[r]
            IN /\ Finished(r)
               /\ h.caught = NoError => SuccessResponse(h)
               /\ h.request.endpoint = "newsletter" => h.caught = NoError
               /\ h.caught # NoError =>
                      /\ h.caught.step = "applySecurityHeaders"
                      /\ h.pc = "responded" => h.response.status = 500

\* a 200 whose `remaining` is no longer what the store would give
C5_Witness ==
    \E r \in Slots :
        /\ Delivered(r)
        /\ SuccessResponse(handler[r])
        /\ handler[r].response.body.remaining = 1
        /\ store[getClientIP(handler[r].request)].count = 3

\* slot r's OPTIONS handler has just run
OptionsRan(r) == handler[r].pc = "idle" /\ handler'[r].export = "OPTIONS"

\* the OPTIONS handler invoked nothing that a POST invokes past its checks
OptionsFrame(r) ==
    /\ store' = store
    /\ \A c \in {"validateOrigin", "getClientIP", "checkRateLimit", "json",
                 "validate", "sendEmail", "logError"} :
          handler'[r].calls[c] = 0
    /\ handler'[r].body = "unread"

\* C6 as stated: an OPTIONS request is answered 200, and the rate limiter,
\* the validator, the body parse and the email sender are never called and
\* the rate-limit store is left unchanged.
C6_AsStated ==
    [][\A r \in Slots :
          OptionsRan(r) =>
              /\ OptionsFrame(r)
              /\ handler'[r].pc = "responded"
              /\ handler'[r].response.status = 200]_vars

\* C6, amended: an OPTIONS handler never calls the rate limiter, the
\* validator, the body parse or the email sender and leaves the rate-limit
\* store unchanged; the newsletter one always answers 200, the contact one
\* answers 200 unless applySecurityHeaders throws, and then it ends without
\* a response (it has no try block).
C6_OptionsFrame ==
    [][\A r \in Slots :
          OptionsRan(r) =>
              /\ OptionsFrame(r)
              /\ handler'[r].pc \in {"responded", "rejected"}
              /\ handler'[r].pc = "responded" =>
                     handler'[r].response.status = 200
              /\ handler'[r].pc = "rejected" =>
                     /\ handler'[r].request.endpoint = "contact"
                     /\ handler'[r].caught.step = "applySecurityHeaders"]_vars

C6_Witness ==
    \E r \in Slots :
        /\ handler[r].export = "OPTIONS"
        /\ handler[r].request.endpoint = "contact"
        /\ handler[r].pc = "responded"
        /\ handler[r].response.status = 200
        /\ store[getClientIP(handler[r].request)].count > 0

\* C7 as stated: in the contact handler every response on every path goes
\* through applySecurityHeaders before it is returned.
C7_AsStated ==
    \A r \in Slots :
        (handler[r].request.endpoint = "contact"
           /\ handler[r].pc = "responded")
        => Secured(handler[r].response)

\* C7, amended: in the contact handler the 405, 403, 200 and 500 responses
\* and the OPTIONS 200 go through applySecurityHeaders before they are
\* returned; the 429 and the 400 responses are returned without it.
C7_ContactHeaders ==
    \A r \in Slots :
        (handler[r].request.endpoint = "contact"
           /\ handler[r].pc = "responded")
        => /\ handler[r].response.status \in {405, 403, 429, 400, 200, 500}
           /\ Secured(handler[r].response)
                <=> handler[r].response.status \notin {429, 400}
           /\ Secured(handler[r].response)
                => handler[r].calls["applySecurityHeaders"] >= 1

C7_Witness ==
    \E r, q \in Slots :
        /\ handler[r].request.endpoint = "contact"
        /\ handler[r].pc = "responded"
        /\ handler[r].response.status = 429
        /\ ~Secured(handler[r].response)
        /\ handler[q].request.endpoint = "contact"
        /\ handler[q].pc = "responded"
        /\ handler[q].response.status = 200
        /\ Secured(handler[q].response)

\* slot r holds a response of the newsletter POST handler
NewsletterResponded(r) ==
    /\ handler[r].request.endpoint = "newsletter"
    /\ handler[r].export = "POST"
    /\ handler[r].pc = "responded"

\* C8 as stated: in the newsletter POST handler no response goes through
\* applySecurityHeaders.
C8_AsStated ==
    \A r \in Slots :
        NewsletterResponded(r) =>
            /\ ~Secured(handler[r].response)
            /\ handler[r].calls["applySecurityHeaders"] = 0

\* C8, amended: in the newsletter POST handler the 429, 400, 200 and 500
\* responses do not go through applySecurityHeaders; the 405 and the 403
\* responses do.
C8_NewsletterHeaders ==
    \A r \in Slots :
        NewsletterResponded(r) =>
            /\ handler[r].response.status \in {405, 403, 429, 400, 200, 500}
            /\ Secured(handler[r].response)
                 <=> handler[r].response.status \in {405, 403}
            /\ handler[r].response.status \in {429, 400, 200}
                 => handler[r].calls["applySecurityHeaders"] = 0

C8_Witness ==
    \E r, q \in Slots :
        /\ NewsletterResponded(r)
        /\ handler[r].response.status = 403
        /\ Secured(handler[r].response)
        /\ NewsletterResponded(q)
        /\ handler[q].response.status = 500
        /\ ~Secured(handler[q].response)

\* C9: every response body of the POST handlers has a `success` boolean,
\* true exactly when the status is 200, and an `error` string exactly when
\* `success` is false; `details` is present only on 400 and `retryAfter`
\* only on 429.
C9_BodyShape ==
    \A r \in Slots :
        (handler[r].export = "POST" /\ handler[r].pc = "responded") =>
            LET status == handler[r].response.status
                body == handler[r].response.body
            IN /\ "success" \in DOMAIN body
               /\ body.success \in BOOLEAN
               /\ body.success <=> status = 200
               /\ "error" \in DOMAIN body <=> ~body.success
               /\ "details" \in DOMAIN body => status = 400
               /\ "retryAfter" \in DOMAIN body => status = 429

C9_Witness ==
    \E r, q \in Slots :
        /\ handler[r].export = "POST"
        /\ handler[r].pc = "responded"
        /\ handler[r].response.status = 400
        /\ "details" \in DOMAIN handler[r].response.body
        /\ handler[q].export = "POST"
        /\ handler[q].pc = "responded"
        /\ handler[q].response.status = 200
        /\ "error" \notin DOMAIN handler[q].response.body

\* slot r's POST handler answered 500
Answered500(r) ==
    /\ handler[r].export = "POST"
    /\ handler[r].pc = "responded"
    /\ handler[r].response.status = 500

\* C10: the 500 response does not depend on which step threw or on what was
\* thrown: any two 500 responses have the same body (success = false and the
\* fixed message), and those of one endpoint are identical; the error itself
\* reaches only logError.
C10_Generic500 ==
    \A r, q \in Slots :
        (Answered500(r) /\ Answered500(q)) =>
            /\ handler[r].response.body = handler[q].response.body
            /\ handler[r].response.body =
                   [success |-> FALSE,
                    error |-> "Internal server error. Please try again later."]
            /\ handler[r].request.endpoint = handler[q].request.endpoint
                 => handler[r].response = handler[q].response
            /\ handler[r].errorLog =
                   <<LogEntry(handler[r].request.endpoint, handler[r].caught)>>

C10_Witness ==
    \E r, q \in Slots :
        /\ Answered500(r)
        /\ Answered500(q)
        /\ handler[r].request = handler[q].request
        /\ handler[r].caught.step # handler[q].caught.step
        /\ handler[r].caught.msg # handler[q].caught.msg
        /\ handler[r].caught.kind # handler[q].caught.kind

-----------------------------------------------------------------------------
(* The rate limiter as the handlers see it *)

\* in this step slot r's POST handler started and checkRateLimit returned
CheckStep(r) ==
    /\ handler[r].pc = "idle"
    /\ handler'[r].export = "POST"
    /\ Checked(handler'[r])

\* the key slot r's handler checked, after the step
KeyOf(r) == getClientIP(handler'[r].request)

\* C11: as long as the checks of a key in the current window number at most
\* the quota Q, every check returns allowed = true and a `remaining` that is
\* 1 less than that of the previous check of the window, starting at Q - 1.
C11_UnderQuota ==
    [][\A r \in Slots :
          (CheckStep(r) /\ tally'[KeyOf(r)].checks <= MaxRequests) =>
              /\ handler'[r].rateLimit.allowed
              /\ handler'[r].rateLimit.remaining =
                     IF tally'[KeyOf(r)].checks = 1
                       THEN MaxRequests - 1
                       ELSE tally[KeyOf(r)].remaining - 1]_vars

C11_Witness ==
    \E r, q \in Slots :
        /\ Checked(handler[r]) /\ Checked(handler[q])
        /\ handler[r].rateLimit.resetTime = handler[q].rateLimit.resetTime
        /\ handler[r].rateLimit.allowed /\ handler[q].rateLimit.allowed
        /\ handler[r].rateLimit.remaining = MaxRequests - 1
        /\ handler[q].rateLimit.remaining = MaxRequests - 2
        /\ tally[getClientIP(handler[q].request)].checks = MaxRequests

\* C12 as stated: the (Q+1)-th check of a key within one window returns
\* allowed = false with a resetTime strictly later than the time of the
\* check, and the handler answers that request 429.
C12_AsStated ==
    [][\A r \in Slots :
          (CheckStep(r) /\ tally'[KeyOf(r)].checks = MaxRequests + 1) =>
              /\ ~handler'[r].rateLimit.allowed
              /\ handler'[r].rateLimit.resetTime > now
              /\ handler'[r].pc = "responded"
              /\ handler'[r].response.status = 429]_vars

\* C12, amended: the (Q+1)-th check of a key within one window returns
\* allowed = false with a resetTime not earlier than the time of the check
\* (equal to it when the check falls on the reset timestamp itself), and the
\* handler answers that request 429.
C12_OverQuota ==
    [][\A r \in Slots :
          (CheckStep(r) /\ tally'[KeyOf(r)].checks = MaxRequests + 1) =>
              /\ ~handler'[r].rateLimit.allowed
              /\ handler'[r].rateLimit.resetTime >= now
              /\ handler'[r].pc = "responded"
              /\ handler'[r].response.status = 429]_vars

C12_Witness ==
    \E r \in Slots :
        /\ handler[r].export = "POST"
        /\ handler[r].pc = "responded"
        /\ handler[r].response.status = 429
        /\ tally[getClientIP(handler[r].request)].checks = MaxRequests + 1
        /\ tally[getClientIP(handler[r].request)].window =
               handler[r].rateLimit.resetTime
        /\ handler[r].dateNow[1] = handler[r].rateLimit.resetTime

\* C13: once a key's window has elapsed, the next check for the key starts a
\* new window and returns allowed = true with remaining = Q - 1, whatever
\* count the expired window reached.
C13_WindowElapsed ==
    [][\A r \in Slots :
          (CheckStep(r) /\ store[KeyOf(r)] # NoRecord
             /\ now > store[KeyOf(r)].resetTime) =>
              /\ handler'[r].rateLimit =
                     [allowed |-> TRUE, remaining |-> MaxRequests - 1,
                      resetTime |-> now + WindowMs]
              /\ store'[KeyOf(r)] =
                     [count |-> 1, resetTime |-> now + WindowMs]
              /\ tally'[KeyOf(r)].checks = 1]_vars

\* a window that went over the quota, then a first request of the next one
C13_Witness ==
    \E r, q \in Slots :
        /\ handler[q].export = "POST"
        /\ handler[q].pc = "responded"
        /\ handler[q].response.status = 429
        /\ Checked(handler[r])
        /\ handler[r].request.ip = handler[q].request.ip
        /\ handler[r].rateLimit.resetTime > handler[q].rateLimit.resetTime
        /\ handler[r].rateLimit.allowed
        /\ handler[r].rateLimit.remaining = MaxRequests - 1

\* C14: however the requests of one key interleave at their awaits, no
\* increment of the key's counter is lost: after n checks in one window the
\* count is n, and at most Q requests of that window get past the rate-limit
\* step.
C14_NoLostIncrement ==
    \A k \in IPs :
        /\ store[k].count = tally[k].checks
        /\ store[k] # NoRecord => store[k].resetTime = tally[k].window
        /\ tally[k].passed <= MaxRequests
        /\ tally[k].passed <= tally[k].checks

\* a request suspended at an await while the window filled up past the quota
C14_Witness ==
    \E r, q \in Slots :
        /\ handler[r].pc \in {"awaitJson", "awaitSend"}
        /\ handler[r].rateLimit.remaining = MaxRequests - 1
        /\ handler[q].export = "POST"
        /\ handler[q].pc = "responded"
        /\ handler[q].response.status = 429
        /\ handler[q].rateLimit.resetTime = handler[r].rateLimit.resetTime
        /\ tally[getClientIP(handler[r].request)].checks = MaxRequests + 1
        /\ tally[getClientIP(handler[r].request)].passed = MaxRequests

-----------------------------------------------------------------------------
(* The order of the steps, and how an invocation ends *)

Pipeline ==
    <<"validateOrigin", "checkRateLimit", "json", "validate", "sendEmail">>

\* the calls of h's handler to the five collaborators of the pipeline, in
\* the order they were made, are a beginning of the pipeline
InPipelineOrder(h) ==
    LET OfPipeline(c) == \E i \in DOMAIN Pipeline : Pipeline[i] = c
        made == SelectSeq(h.order, OfPipeline)
    IN /\ Len(made) <= Len(Pipeline)
       /\ \A i \in DOMAIN made : made[i] = Pipeline[i]

\* C15 as stated: within one request the collaborators run in the order
\* origin check, rate-limit check, body parse, validation, email send, each
\* at most once; a failed send is never retried and ends the request with
\* 500.
C15_AsStated ==
    \A r \in Slots :
        handler[r].export = "POST" =>
            /\ InPipelineOrder(handler[r])
            /\ handler[r].calls["sendEmail"] <= 1
            /\ handler[r].caught.step = "sendEmail" =>
                   /\ handler[r].calls["sendEmail"] = 1
                   /\ handler[r].pc = "responded"
                   /\ handler[r].response.status = 500

\* C16 as stated: every invocation of a POST handler ends in one HTTP
\* response whose status is one of 405, 403, 429, 400, 200, 500; no failure
\* of a collaborator lets an exception leave the handler without a response.
C16_AsStated ==
    \A r \in Slots :
        (handler[r].export = "POST" /\ Finished(r)) =>
            /\ handler[r].pc = "responded"
            /\ handler[r].response.status \in {405, 403, 429, 400, 200, 500}

\* slot r's POST handler was given a request whose method is not POST
NotPost(r) ==
    /\ handler[r].export = "POST"
    /\ handler[r].request.method # "POST"

\* none of validateOrigin, the rate limiter, the body parse, the validator
\* and the email sender was invoked for slot r's request
NothingPastMethod(r) ==
    /\ handler[r].calls["validateOrigin"] = 0
    /\ NothingPastOrigin(r)

\* C17 as stated: a request with a method other than POST is answered 405
\* before the origin check runs, and neither validateOrigin, the rate
\* limiter, the body parse, the validator nor the email sender is invoked.
C17_AsStated ==
    \A r \in Slots :
        NotPost(r) =>
            /\ handler[r].pc = "responded"
            /\ handler[r].response.status = 405
            /\ NothingPastMethod(r)

\* C17, amended: such a request is answered 405 unless applySecurityHeaders
\* throws on that 405 response; then the catch block takes over and the
\* request ends in 500 or in no response at all.  In every case neither
\* validateOrigin, the rate limiter, the body parse, the validator nor the
\* email sender is invoked for it.
C17_MethodRejected ==
    \A r \in Slots :
        NotPost(r) =>
            /\ Finished(r)
            /\ NothingPastMethod(r)
            /\ handler[r].order[1] = "applySecurityHeaders"
            /\ handler[r].caught = NoError =>
                   /\ handler[r].pc = "responded"
                   /\ handler[r].response.status = 405
            /\ handler[r].caught # NoError =>
                   /\ handler[r].caught.step = "applySecurityHeaders"
                   /\ handler[r].pc = "responded" =>
                          handler[r].response.status = 500

C17_Witness ==
    \E r \in Slots :
        /\ NotPost(r)
        /\ ~validateOrigin(handler[r].request)
        /\ handler[r].pc = "responded"
        /\ handler[r].response.status = 405

\* in this step slot r's POST handler started
StartStep(r) == handler[r].pc = "idle" /\ handler'[r].export = "POST"

\* in this step slot r's POST handler ran on from one of its awaits
ResumeStep(r) ==
    /\ handler[r].pc \in {"awaitJson", "awaitSend"}
    /\ handler'[r] # handler[r]

\* h's request passed the method check and the origin check
PassedChecks(h) ==
    /\ h.export = "POST"
    /\ h.request.method = "POST"
    /\ h.calls["validateOrigin"] = 1
    /\ h.caught.step # "validateOrigin"
    /\ validateOrigin(h.request)

\* the check of slot r's handler took one unit of its key's quota
Consumed(r) ==
    LET before == store[KeyOf(r)]
    IN store'[KeyOf(r)].count =
           IF before = NoRecord \/ now > before.resetTime
             THEN 1
             ELSE before.count + 1

\* what C18 says of the requests answered 405 or 403 and of what follows
\* the check
QuotaFrame(r) ==
    /\ StartStep(r) =>
           /\ (handler'[r].pc = "responded"
                 /\ handler'[r].response.status \in {405, 403}) =>
                  /\ handler'[r].calls["checkRateLimit"] = 0
                  /\ store' = store
           /\ CheckStep(r) => Consumed(r)
    /\ ResumeStep(r) =>
           /\ handler'[r].calls["checkRateLimit"] = 1
           /\ store' = store
           /\ handler'[r].pc = "responded" =>
                  handler'[r].response.status \in {400, 200, 500}

\* C18 as stated: the rate limiter is called exactly once for every POST
\* request that passes the method and origin checks and never for a request
\* answered 405 or 403, which leaves the store unchanged; a request that
\* later ends in 400 or 500 has still consumed one unit of the quota.
C18_AsStated ==
    [][\A r \in Slots :
          /\ QuotaFrame(r)
          /\ (StartStep(r) /\ PassedChecks(handler'[r])) =>
                 handler'[r].calls["checkRateLimit"] = 1]_vars

\* C18, amended: the rate limiter is called exactly once for every POST
\* request that passes the method and origin checks and whose client IP is
\* derived (getClientIP returns); when getClientIP throws it is not called
\* and the store is left unchanged.  It is never called for a request
\* answered 405 or 403, which leaves the store unchanged; a request that
\* later ends in 400 or 500 has still consumed one unit of the quota.
C18_ExactlyOnce ==
    [][\A r \in Slots :
          /\ QuotaFrame(r)
          /\ (StartStep(r) /\ PassedChecks(handler'[r])) =>
                 IF handler'[r].caught.step = "getClientIP"
                   THEN /\ handler'[r].calls["checkRateLimit"] = 0
                        /\ store' = store
                   ELSE handler'[r].calls["checkRateLimit"] = 1]_vars

\* a request that ended in 500 on a malformed body after taking its unit,
\* beside one answered 403
C18_Witness ==
    \E r, q \in Slots :
        /\ handler[r].export = "POST"
        /\ handler[r].pc = "responded"
        /\ handler[r].response.status = 500
        /\ handler[r].caught.step = "json"
        /\ handler[r].calls["checkRateLimit"] = 1
        /\ store[getClientIP(handler[r].request)].count = 1
        /\ handler[q].export = "POST"
        /\ handler[q].pc = "responded"
        /\ handler[q].response.status = 403
        /\ handler[q].calls["checkRateLimit"] = 0

\* C19 as stated: in every 429 response the retryAfter body field and the
\* Retry-After header carry the same value, an integer of at least 1.
C19_AsStated ==
    \A r \in Slots :
        (handler[r].export = "POST" /\ handler[r].pc = "responded"
           /\ handler[r].response.status = 429) =>
            /\ handler[r].response.headers["Retry-After"] =
                   toString(handler[r].response.body.retryAfter)
            /\ handler[r].response.body.retryAfter >= 1

=============================================================================
